---- MODULE Spec2Model ----
(***************************************************************************)
(* Container<T>: a sorted container kept as a sentinel-anchored circular   *)
(* doubly linked ring overlaid with a skip-list index (forward[] links).   *)
(* The heap is modelled explicitly: every Node<T> is an address (NodeIds)  *)
(* with its fields, every Container is a slot ("a", "b") with its members. *)
(* Raw pointers are addresses; nullptr is NULL.                            *)
(*                                                                         *)
(* Undefined behaviour.  A read through nullptr, through a pointer to a    *)
(* destroyed node, of an uninitialised update[] entry or past the end of a *)
(* forward vector has no defined outcome: the operation that performs it   *)
(* sets status to "ub" and the execution has no further defined step.  A   *)
(* loop of the code that can never reach its exit condition sets status to *)
(* "hang".  The allocator may hand out any address that is not live, in    *)
(* particular one that a stale pointer still designates.                   *)
(***************************************************************************)
EXTENDS Integers, Sequences, FiniteSets, TLC

\* ---------------------------------------------------------------- bounds
MaxNodes == 5
MaxVal == 2
MaxDraws == 1
MaxStaleOps == 1

\* The longest sequence of values a constructor or a range insert is given.
MaxLen == 3

\* ------------------------------------------------------- program constants
MAX_SKIP_LEVEL == 16
NULL == 0
SentinelValue == 1

NodeIds == 1..MaxNodes
Ptr == NodeIds \cup {NULL}
\* The element values: some below, one equal to and some above the value a
\* sentinel holds.
Values == 0..MaxVal
Levels == 0..MAX_SKIP_LEVEL
Containers == {"a", "b"}
DrawSeqs == [1..MaxDraws -> BOOLEAN]

VARIABLES value, prev, next, forward, level, live,
          sentinel_node, num_elements, skip_list_heads, current_max_level,
          constructed, status, last, aged

vars == <<value, prev, next, forward, level, live, sentinel_node, num_elements,
          skip_list_heads, current_max_level, constructed, status, last, aged>>

\* The whole memory as one record, so that the operations can be written as
\* functions from memory to memory and composed.
Cur == [value |-> value, prev |-> prev, next |-> next, forward |-> forward,
        level |-> level, live |-> live, sentinel_node |-> sentinel_node,
        num_elements |-> num_elements, skip_list_heads |-> skip_list_heads,
        current_max_level |-> current_max_level, constructed |-> constructed,
        status |-> status]

NoForward == [i \in Levels |-> NULL]

Ok(h, n) == n # NULL /\ h.live[n]

Fail(h, st) == [h EXCEPT !.status = st]

\* What an operation that started on memory h0 leaves: the memory h its steps
\* produced or, when one of them was undefined or never ended, h0 with that
\* status (nothing can be said of memory after undefined behaviour).
OrFail(h0, h) == IF h.status # "ok" THEN Fail(h0, h.status) ELSE h

\* ------------------------------------------------------------------ Node

\* Node<T>::Node(const T& val, int node_level): prev, next null, forward has
\* node_level + 1 null entries.
NodeCtor(h, n, val, node_level) ==
    [h EXCEPT !.live[n] = TRUE, !.value[n] = val, !.prev[n] = NULL, !.next[n] = NULL,
              !.forward[n] = NoForward, !.level[n] = node_level]

\* Node<T>::~Node() and deallocate: the address is free again and what it held
\* is gone.
destroy_and_deallocate_node(h, n) ==
    IF n = NULL THEN h
    ELSE [h EXCEPT !.live[n] = FALSE, !.value[n] = 0, !.prev[n] = NULL, !.next[n] = NULL,
                   !.forward[n] = NoForward, !.level[n] = 0]

\* node_allocator.allocate(1): any address that holds no live node.  Addresses
\* that nothing designates are interchangeable, so one of them stands for all;
\* an address that a stale link of a live node still designates is a choice of
\* its own.
Designated(h, p) ==
    \E m \in NodeIds :
        /\ h.live[m]
        /\ \/ h.next[m] = p
           \/ h.prev[m] = p
           \/ \E i \in 0..h.level[m] : h.forward[m][i] = p

FreeIds(h) == {n \in NodeIds : ~h.live[n]}

Lowest(S) == IF S = {} THEN {} ELSE {CHOOSE n \in S : \A m \in S : n <= m}

AllocateFrom(free, stale) == stale \cup Lowest(free \ stale)

allocate(h) == AllocateFrom(FreeIds(h), {p \in FreeIds(h) : Designated(h, p)})

allocate_and_construct_node(h, n, val, node_level) == NodeCtor(h, n, val, node_level)

\* construct(node_allocator, new_node, true, MAX_SKIP_LEVEL)
allocate_and_construct_sentinel(h, n) == NodeCtor(h, n, SentinelValue, MAX_SKIP_LEVEL)

\* ------------------------------------------------------------ random level

\* A level loop that stops at MAX_SKIP_LEVEL instead of MAX_SKIP_LEVEL - 1.
RECURSIVE RandomLevelInclusive(_, _, _)
RandomLevelInclusive(draws, k, lvl) ==
    IF k <= Len(draws) /\ draws[k] /\ lvl < MAX_SKIP_LEVEL
    THEN RandomLevelInclusive(draws, k + 1, lvl + 1)
    ELSE lvl

\* draws[k] is "dist(rng) < 0.5" for the k-th draw; a draw past the end of the
\* sequence is one that is not below 0.5.
RECURSIVE RandomLevelFrom(_, _, _)
RandomLevelFrom(draws, k, lvl) ==
    IF k <= Len(draws) /\ draws[k] /\ lvl < MAX_SKIP_LEVEL - 1
    THEN RandomLevelFrom(draws, k + 1, lvl + 1)
    ELSE lvl

get_random_level(draws) == RandomLevelFrom(draws, 1, 0)

\* ------------------------------------------------------------- ring (DLL)

insert_dll_node_before(h, c, new_node, position_node) ==
    IF ~Ok(h, position_node) THEN Fail(h, "ub")
    ELSE LET prev_node == h.prev[position_node]
         IN IF ~Ok(h, prev_node) THEN Fail(h, "ub")
            ELSE [h EXCEPT !.next = [@ EXCEPT ![new_node] = position_node,
                                              ![prev_node] = new_node],
                           !.prev = [@ EXCEPT ![new_node] = prev_node,
                                              ![position_node] = new_node],
                           !.num_elements[c] = @ + 1]

\* A remove_dll_node that leaves the prev link of the following node as it
\* was.
RemoveForwardOnly(h, c, node_to_remove) ==
    IF ~Ok(h, node_to_remove) THEN Fail(h, "ub")
    ELSE IF ~Ok(h, h.prev[node_to_remove]) \/ ~Ok(h, h.next[node_to_remove])
         THEN Fail(h, "ub")
         ELSE [h EXCEPT !.next[h.prev[node_to_remove]] = h.next[node_to_remove],
                        !.num_elements[c] = @ - 1]

remove_dll_node(h, c, node_to_remove) ==
    IF ~Ok(h, node_to_remove) THEN Fail(h, "ub")
    ELSE LET p == h.prev[node_to_remove]
             n == h.next[node_to_remove]
         IN IF ~Ok(h, p) \/ ~Ok(h, n) THEN Fail(h, "ub")
            ELSE LET h1 == [h EXCEPT !.next[p] = n]
                 IN [h1 EXCEPT !.prev[n] = h1.prev[node_to_remove],
                               !.num_elements[c] = @ - 1]

\* ---------------------------------------------------------------- descent

\* while (current->forward[i] != sentinel_node && current->forward[i]->value < v)
\*     current = current->forward[i];
\* Memory does not change during the loop, so a walk that makes more than
\* MaxNodes advances has come back to a node it left and never ends.
RECURSIVE WalkLevel(_, _, _, _, _, _)
WalkLevel(h, sent, current, i, v, fuel) ==
    IF ~Ok(h, current) \/ i > h.level[current] THEN [st |-> "ub", node |-> current]
    ELSE LET f == h.forward[current][i]
         IN IF f = sent THEN [st |-> "ok", node |-> current]
            ELSE IF ~Ok(h, f) THEN [st |-> "ub", node |-> current]
            ELSE IF h.value[f] < v
                 THEN IF fuel = 0 THEN [st |-> "hang", node |-> current]
                      ELSE WalkLevel(h, sent, f, i, v, fuel - 1)
                 ELSE [st |-> "ok", node |-> current]

\* for (int i = current_max_level; i >= 0; --i) { walk; update[i] = current; }
\* w is what the while loop of level i gave.
RECURSIVE DescendFrom(_, _, _, _, _, _)
DescendFrom(h, sent, w, i, v, update) ==
    IF w.st # "ok" THEN [st |-> w.st, current |-> w.node, update |-> update]
    ELSE IF i = 0
         THEN [st |-> "ok", current |-> w.node, update |-> [update EXCEPT ![i] = w.node]]
         ELSE DescendFrom(h, sent, WalkLevel(h, sent, w.node, i - 1, v, MaxNodes), i - 1, v,
                          [update EXCEPT ![i] = w.node])

\* Node<T>* update[MAX_SKIP_LEVEL] starts uninitialised: NULL stands for an
\* entry that was never written, and using it is undefined.
Descent(h, c, v) ==
    DescendFrom(h, h.sentinel_node[c],
                WalkLevel(h, h.sentinel_node[c], h.sentinel_node[c], h.current_max_level[c],
                          v, MaxNodes),
                h.current_max_level[c], v, [i \in Levels |-> NULL])

\* ----------------------------------------------------------------- insert

\* for (int i = 0; i <= new_node->level; ++i) {
\*     new_node->forward[i] = update[i]->forward[i]; update[i]->forward[i] = new_node; }
RECURSIVE LinkLevels(_, _, _, _)
LinkLevels(h, new_node, update, i) ==
    IF i > h.level[new_node] THEN h
    ELSE IF ~Ok(h, update[i]) \/ i > h.level[update[i]] THEN Fail(h, "ub")
    ELSE LinkLevels([h EXCEPT !.forward = [@ EXCEPT ![new_node][i] = h.forward[update[i]][i],
                                                    ![update[i]][i] = new_node]],
                    new_node, update, i + 1)

\* Container::insert(const_iterator pos, const value_type& value); pos is unused.
\* node_level is what get_random_level() returned, n the address allocate()
\* returned.
\* if (new_node->level > current_max_level) { update[i] = sentinel_node for the
\* levels above; current_max_level = new_node->level; }
RaisedUpdate(h, c, node_level, update) ==
    [i \in Levels |->
        IF node_level > h.current_max_level[c] /\ i > h.current_max_level[c] /\ i <= node_level
        THEN h.sentinel_node[c] ELSE update[i]]

RaisedLevel(h, c, node_level) ==
    [h EXCEPT !.current_max_level[c] = IF node_level > @ THEN node_level ELSE @]

\* insert from insert_dll_node_before on: h2 is the memory after the splice
\* into the ring, update the array the descent filled.
InsertLinked(h2, c, node_level, n, update) ==
    IF h2.status # "ok" THEN h2
    ELSE LinkLevels(RaisedLevel(h2, c, node_level), n,
                    RaisedUpdate(h2, c, node_level, update), 0)

\* insert from the end of the descent on: h1 is the memory with the new node
\* constructed at n, d what the descent gave.
InsertDescended(h1, c, node_level, n, d) ==
    IF d.st # "ok" THEN Fail(h1, d.st)
    ELSE InsertLinked(insert_dll_node_before(h1, c, n, h1.next[d.current]),
                      c, node_level, n, d.update)

InsertConstructed(h1, c, val, node_level, n) ==
    InsertDescended(h1, c, node_level, n, Descent(h1, c, val))

insert(h0, c, val, node_level, n) ==
    OrFail(h0, InsertConstructed(allocate_and_construct_node(h0, n, val, node_level),
                                 c, val, node_level, n))

\* ------------------------------------------------------------------ erase

\* for (int i = 0; i <= current->level; ++i)
\*     if (update[i]->forward[i] == node_to_remove)
\*         update[i]->forward[i] = node_to_remove->forward[i];
RECURSIVE UnlinkLevels(_, _, _, _)
UnlinkLevels(h, node_to_remove, update, i) ==
    IF i > h.level[node_to_remove] THEN h
    ELSE IF ~Ok(h, update[i]) \/ i > h.level[update[i]] THEN Fail(h, "ub")
    ELSE IF h.forward[update[i]][i] = node_to_remove
         THEN UnlinkLevels([h EXCEPT !.forward[update[i]][i] = h.forward[node_to_remove][i]],
                           node_to_remove, update, i + 1)
         ELSE UnlinkLevels(h, node_to_remove, update, i + 1)

\* A shrink that lowers current_max_level without looking at the top level.
ShrinkToZero(h, c) ==
    IF h.status # "ok" THEN h ELSE [h EXCEPT !.current_max_level[c] = 0]

\* while (current_max_level > 0 && sentinel_node->forward[current_max_level] == sentinel_node)
\*     current_max_level--;
RECURSIVE ShrinkLevel(_, _)
ShrinkLevel(h, c) ==
    LET cml == h.current_max_level[c]
        sent == h.sentinel_node[c]
    IN IF h.status # "ok" THEN h
       ELSE IF cml > 0 /\ h.forward[sent][cml] = sent
       THEN ShrinkLevel([h EXCEPT !.current_max_level[c] = cml - 1], c)
       ELSE h

\* remove_from_skip_list from the end of its descent on:
\* current = update[0]->forward[0]; if (current != sentinel_node && current == node_to_remove)
RemoveDescended(h, c, node_to_remove, d) ==
    IF d.st # "ok" THEN Fail(h, d.st)
    ELSE IF /\ h.forward[d.update[0]][0] # h.sentinel_node[c]
            /\ h.forward[d.update[0]][0] = node_to_remove
         THEN ShrinkLevel(UnlinkLevels(h, node_to_remove, d.update, 0), c)
         ELSE h

remove_from_skip_list(h, c, node_to_remove) ==
    RemoveDescended(h, c, node_to_remove, Descent(h, c, h.value[node_to_remove]))

\* What a public operation hands back: the memory after it, the node of the
\* cursor it returns (NULL where it returns none) and the exception it threw.
Res(h, ret, thrown) == [h |-> h, ret |-> ret, thrown |-> thrown]

\* An erase that does not test for the sentinel.
EraseAnyNode(h, c, pos) ==
    IF pos = NULL \/ h.num_elements[c] = 0
    THEN Res(h, NULL, "invalid_argument")
    ELSE IF ~Ok(h, pos) THEN Res(Fail(h, "ub"), NULL, "none")
    ELSE Res(OrFail(h, destroy_and_deallocate_node(
                           remove_dll_node(remove_from_skip_list(h, c, pos), c, pos), pos)),
             h.next[pos], "none")

\* Container::erase(const_iterator pos)
erase(h, c, pos) ==
    IF pos = NULL \/ pos = h.sentinel_node[c] \/ h.num_elements[c] = 0
    THEN Res(h, NULL, "invalid_argument")
    ELSE IF ~Ok(h, pos) THEN Res(Fail(h, "ub"), NULL, "none")
    ELSE Res(OrFail(h, destroy_and_deallocate_node(
                           remove_dll_node(remove_from_skip_list(h, c, pos), c, pos), pos)),
             h.next[pos], "none")

\* Container::pop_front(): erase(begin()), begin() being sentinel_node->next
pop_front(h, c) ==
    IF h.num_elements[c] = 0 THEN Res(h, NULL, "out_of_range")
    ELSE IF ~Ok(h, h.sentinel_node[c]) THEN Res(Fail(h, "ub"), NULL, "none")
    ELSE erase(h, c, h.next[h.sentinel_node[c]])

\* A pop_back without the test of empty(): erase(--end()) whatever the size.
PopBackUnchecked(h, c) ==
    IF ~Ok(h, h.sentinel_node[c]) THEN Res(Fail(h, "ub"), NULL, "none")
    ELSE erase(h, c, h.prev[h.sentinel_node[c]])

\* Container::pop_back(): erase(--end()), --end() being sentinel_node->prev
pop_back(h, c) ==
    IF h.num_elements[c] = 0 THEN Res(h, NULL, "out_of_range")
    ELSE IF ~Ok(h, h.sentinel_node[c]) THEN Res(Fail(h, "ub"), NULL, "none")
    ELSE erase(h, c, h.prev[h.sentinel_node[c]])

\* ------------------------------------------------------------------- find

\* Returns [st, node]: node is NULL for "return nullptr".
\* find_node_in_skip_list from the end of its descent on; current is
\* current->forward[0].
FoundAt(h, c, val, current) ==
    IF current # h.sentinel_node[c] /\ ~Ok(h, current) THEN [st |-> "ub", node |-> NULL]
    ELSE IF current # h.sentinel_node[c] /\ h.value[current] = val
         THEN [st |-> "ok", node |-> current]
         ELSE [st |-> "ok", node |-> NULL]

FindDescended(h, c, val, d) ==
    IF d.st # "ok" THEN [st |-> d.st, node |-> NULL]
    ELSE FoundAt(h, c, val, h.forward[d.current][0])

find_node_in_skip_list(h, c, val) == FindDescended(h, c, val, Descent(h, c, val))

\* Container::contains
contains(h, c, val) == find_node_in_skip_list(h, c, val).node # NULL

\* Container::find: the node of the cursor returned, end() being sentinel_node
find(h, c, val) ==
    IF find_node_in_skip_list(h, c, val).node # NULL
    THEN find_node_in_skip_list(h, c, val).node
    ELSE h.sentinel_node[c]

\* -------------------------------------------------------------- lifecycle

\* while (current != sentinel_node) { next_node = current->next; destroy(current); ... }
RECURSIVE DestroyFrom(_, _, _)
DestroyFrom(h, sent, current) ==
    IF current = sent THEN h
    ELSE IF ~Ok(h, current) THEN Fail(h, "ub")
    ELSE DestroyFrom(destroy_and_deallocate_node(h, current), sent, h.next[current])

\* A teardown that destroys the data nodes and keeps the sentinel.
DestroyDataNodes(h, c) ==
    IF h.status # "ok" THEN h
    ELSE IF h.sentinel_node[c] = NULL THEN [h EXCEPT !.skip_list_heads[c] = FALSE]
    ELSE IF ~Ok(h, h.sentinel_node[c]) THEN Fail(h, "ub")
    ELSE OrFail(h, [DestroyFrom(h, h.sentinel_node[c], h.next[h.sentinel_node[c]])
                      EXCEPT !.skip_list_heads[c] = FALSE])

destroy_container_nodes(h, c) ==
    IF h.status # "ok" THEN h
    ELSE IF h.sentinel_node[c] = NULL THEN [h EXCEPT !.skip_list_heads[c] = FALSE]
    ELSE IF ~Ok(h, h.sentinel_node[c]) THEN Fail(h, "ub")
    ELSE OrFail(h, [destroy_and_deallocate_node(
                        DestroyFrom(h, h.sentinel_node[c], h.next[h.sentinel_node[c]]),
                        h.sentinel_node[c])
                      EXCEPT !.sentinel_node[c] = NULL, !.skip_list_heads[c] = FALSE])

\* n is the address allocate_and_construct_sentinel() gets, taken after the
\* old nodes were destroyed.
initialize_container(h, c, n) ==
    IF h.status # "ok" THEN h
    ELSE OrFail(h, [allocate_and_construct_sentinel(
                        IF h.sentinel_node[c] # NULL THEN destroy_container_nodes(h, c) ELSE h, n)
                      EXCEPT !.sentinel_node[c] = n,
                             !.next[n] = n, !.prev[n] = n,
                             !.num_elements[c] = 0,
                             !.skip_list_heads[c] = TRUE,
                             !.forward[n] = [i \in Levels |->
                                               IF i < MAX_SKIP_LEVEL THEN n ELSE NULL],
                             !.current_max_level[c] = 0])

\* A clear that keeps current_max_level as it was.
ClearKeepingLevel(h, c, n) ==
    OrFail(h, [initialize_container(destroy_container_nodes(h, c), c, n)
                 EXCEPT !.current_max_level[c] = h.current_max_level[c]])

\* A clear that leaves a container without a sentinel as it is.
ClearIfOwned(h, c, n) ==
    IF h.sentinel_node[c] = NULL THEN h
    ELSE OrFail(h, initialize_container(destroy_container_nodes(h, c), c, n))

\* Container::clear(): destroy_container_nodes(); initialize_container();
clear(h, c, n) == OrFail(h, initialize_container(destroy_container_nodes(h, c), c, n))

\* The addresses the sentinel of clear() can get.
AddrsAfter(h1) == IF h1.status # "ok" THEN Lowest(NodeIds) ELSE allocate(h1)

ClearAddrs(h, c) == AddrsAfter(destroy_container_nodes(h, c))

DrawLevels == {get_random_level(dr) : dr \in DrawSeqs}

\* copy_container_nodes_from(other): for (const auto& val : other) push_back(val);
\* every push_back draws a level and allocates, so the outcome is a set.  it is
\* the node of the range-for's cursor.
RECURSIVE CopyLoop(_, _, _, _, _)
RECURSIVE CopyNext(_, _, _, _, _)
CopyLoop(h, c, other_sent, it, fuel) ==
    IF it = other_sent THEN {h}
    ELSE IF ~Ok(h, it) THEN {Fail(h, "ub")}
    ELSE IF fuel = 0 THEN {Fail(h, "hang")}
    ELSE UNION { CopyNext(insert(h, c, h.value[it], lvl, n), c, other_sent, it, fuel)
                 : <<lvl, n>> \in DrawLevels \X allocate(h) }

\* ++it after the push_back that left memory h1
CopyNext(h1, c, other_sent, it, fuel) ==
    IF h1.status # "ok" THEN {h1}
    ELSE CopyLoop(h1, c, other_sent, h1.next[it], fuel - 1)

copy_container_nodes_from(h, c, other) ==
    IF h.status # "ok" THEN {h}
    ELSE IF ~Ok(h, h.sentinel_node[other]) THEN {Fail(h, "ub")}
    ELSE CopyLoop(h, c, h.sentinel_node[other], h.next[h.sentinel_node[other]], MaxNodes)

Constructed(h, c) == [h EXCEPT !.constructed[c] = TRUE]

\* Container(const Allocator&)
DefaultCtor(h, c, n) == Constructed(initialize_container(h, c, n), c)

\* Container(const Container& other)
CopyCtor(h, c, other) ==
    UNION { copy_container_nodes_from(Constructed(initialize_container(h, c, n), c), c, other)
            : n \in allocate(h) }

\* Container(Container&& other) noexcept
MoveCtor(h, c, other) ==
    [h EXCEPT !.sentinel_node = [@ EXCEPT ![c] = h.sentinel_node[other], ![other] = NULL],
              !.num_elements = [@ EXCEPT ![c] = h.num_elements[other], ![other] = 0],
              !.skip_list_heads = [@ EXCEPT ![c] = h.skip_list_heads[other], ![other] = FALSE],
              !.current_max_level = [@ EXCEPT ![c] = h.current_max_level[other], ![other] = 0],
              !.constructed[c] = TRUE]

\* ~Container()
Dtor(h, c) ==
    OrFail(h, [destroy_container_nodes(h, c)
                 EXCEPT !.constructed[c] = FALSE, !.num_elements[c] = 0,
                        !.current_max_level[c] = 0])

\* Container& operator=(const Container& other); std::allocator does not
\* propagate on copy assignment, so the branch taken is this->clear().
CopyAssign(h, c, other) ==
    IF c = other THEN {h}
    ELSE UNION { copy_container_nodes_from(clear(h, c, n), c, other) : n \in ClearAddrs(h, c) }

\* sentinel_node = other.sentinel_node; ... other.sentinel_node = nullptr; ...
TakeOver(h, c, other) ==
    [h EXCEPT !.sentinel_node = [@ EXCEPT ![c] = h.sentinel_node[other], ![other] = NULL],
              !.num_elements = [@ EXCEPT ![c] = h.num_elements[other], ![other] = 0],
              !.skip_list_heads = [@ EXCEPT ![c] = h.skip_list_heads[other], ![other] = FALSE],
              !.current_max_level = [@ EXCEPT ![c] = h.current_max_level[other], ![other] = 0]]

\* A move assignment that takes the members over and leaves the nodes the
\* target held where they are.
MoveAssignLeaking(h, c, other) == IF c = other THEN h ELSE TakeOver(h, c, other)

\* Container& operator=(Container&& other) noexcept; std::allocator propagates
\* on move assignment (and all its instances are equal), so the members are
\* taken over.
MoveAssign(h, c, other) ==
    IF c = other THEN h
    ELSE OrFail(h, TakeOver(destroy_container_nodes(h, c), c, other))

\* A swap that exchanges everything but current_max_level.
SwapKeepingLevel(h, c, other) ==
    [h EXCEPT !.sentinel_node = [@ EXCEPT ![c] = h.sentinel_node[other],
                                          ![other] = h.sentinel_node[c]],
              !.num_elements = [@ EXCEPT ![c] = h.num_elements[other],
                                         ![other] = h.num_elements[c]],
              !.skip_list_heads = [@ EXCEPT ![c] = h.skip_list_heads[other],
                                            ![other] = h.skip_list_heads[c]]]

\* Container::swap(Container& other) noexcept
swap(h, c, other) ==
    [h EXCEPT !.sentinel_node = [@ EXCEPT ![c] = h.sentinel_node[other],
                                          ![other] = h.sentinel_node[c]],
              !.num_elements = [@ EXCEPT ![c] = h.num_elements[other],
                                         ![other] = h.num_elements[c]],
              !.skip_list_heads = [@ EXCEPT ![c] = h.skip_list_heads[other],
                                            ![other] = h.skip_list_heads[c]],
              !.current_max_level = [@ EXCEPT ![c] = h.current_max_level[other],
                                              ![other] = h.current_max_level[c]]]

\* ------------------------------------------------------------ observation

\* for (it = begin(); it != end(); ++it): the nodes a forward traversal of the
\* ring visits, in order.  st is "ok" when the traversal is defined and ends.
RECURSIVE RingFrom(_, _, _, _, _)
RingFrom(h, sent, it, acc, fuel) ==
    IF it = sent THEN [st |-> "ok", nodes |-> acc]
    ELSE IF ~Ok(h, it) THEN [st |-> "ub", nodes |-> acc]
    ELSE IF fuel = 0 THEN [st |-> "hang", nodes |-> acc]
    ELSE RingFrom(h, sent, h.next[it], Append(acc, it), fuel - 1)

Ring(h, c) ==
    IF ~Ok(h, h.sentinel_node[c]) THEN [st |-> "ub", nodes |-> <<>>]
    ELSE RingFrom(h, h.sentinel_node[c], h.next[h.sentinel_node[c]], <<>>, MaxNodes)

Range(s) == {s[k] : k \in DOMAIN s}

\* The cursors a caller can hold on elements of c: those a traversal yields.
Cursors(h, c) == Range(Ring(h, c).nodes)

\* ------------------------------------------------------------- addresses

\* An address means nothing but the identity of the node at it.  Between two
\* operations memory is kept renamed to one numbering: the nodes in the order
\* in which following next, forward[0..TopLevel] and prev from a's sentinel and
\* then from b's sentinel first meets them, then every other address.  TopLevel
\* is the highest level get_random_level() can return; above it only sentinels
\* have links.  The operations themselves work on the memory as it is.
TopLevel == get_random_level([k \in 1..MaxDraws |-> TRUE])

Links(h, n) ==
    IF h.live[n]
    THEN <<h.next[n]>> \o [k \in 1..(TopLevel + 1) |-> h.forward[n][k - 1]] \o <<h.prev[n]>>
    ELSE <<>>

RECURSIVE Visit(_, _, _)
Visit(h, todo, order) ==
    IF todo = <<>> THEN order
    ELSE IF Head(todo) = NULL \/ \E k \in DOMAIN order : order[k] = Head(todo)
         THEN Visit(h, Tail(todo), order)
         ELSE Visit(h, Links(h, Head(todo)) \o Tail(todo), Append(order, Head(todo)))

RECURSIVE Ascending(_)
Ascending(S) ==
    IF S = {} THEN <<>>
    ELSE <<CHOOSE n \in S : \A m \in S : n <= m>> \o Ascending(S \ Lowest(S))

\* met: the nodes met from the sentinels, in the order of meeting
OrderAfter(h, met) ==
    met \o Ascending({n \in NodeIds : h.live[n]} \ Range(met))
        \o Ascending({n \in NodeIds : ~h.live[n]} \ Range(met))

AddressOrder(h) ==
    OrderAfter(h, Visit(h, <<h.sentinel_node["a"], h.sentinel_node["b"]>>, <<>>))

RenameMap(order) ==
    [p \in Ptr |-> IF p = NULL THEN NULL ELSE CHOOSE k \in NodeIds : order[k] = p]

RenameBy(h, order, ren) ==
    [h EXCEPT !.value = [k \in NodeIds |-> h.value[order[k]]],
              !.prev = [k \in NodeIds |-> ren[h.prev[order[k]]]],
              !.next = [k \in NodeIds |-> ren[h.next[order[k]]]],
              !.forward = [k \in NodeIds |->
                             [i \in Levels |-> ren[h.forward[order[k]][i]]]],
              !.level = [k \in NodeIds |-> h.level[order[k]]],
              !.live = [k \in NodeIds |-> h.live[order[k]]],
              !.sentinel_node = [c \in Containers |-> ren[h.sentinel_node[c]]]]

RenameTo(h, order) == RenameBy(h, order, RenameMap(order))

Renamed(h) == RenameTo(h, AddressOrder(h))

\* ---------------------------------------------------------------- actions

\* A link of a live node that designates a destroyed node.
StaleLink(h) == \E p \in FreeIds(h) : Designated(h, p)

\* aged counts the operations run since memory first held a stale link, the
\* one that left it behind included; the model follows the execution for
\* MaxStaleOps operations past that one.
Running == status = "ok" /\ aged <= MaxStaleOps

Commit(h0) ==
    \E h \in {Renamed(h0)} :
       /\ aged' = IF aged > 0 THEN aged + 1 ELSE IF StaleLink(h) THEN 1 ELSE 0
       /\ value' = h.value
       /\ prev' = h.prev
       /\ next' = h.next
       /\ forward' = h.forward
       /\ level' = h.level
       /\ live' = h.live
       /\ sentinel_node' = h.sentinel_node
       /\ num_elements' = h.num_elements
       /\ skip_list_heads' = h.skip_list_heads
       /\ current_max_level' = h.current_max_level
       /\ constructed' = h.constructed
       /\ status' = h.status

Op(name, thrown) == [op |-> name, thrown |-> thrown]

\* Memory before the program constructs anything.
Blank ==
    [value |-> [n \in NodeIds |-> 0],
     prev |-> [n \in NodeIds |-> NULL],
     next |-> [n \in NodeIds |-> NULL],
     forward |-> [n \in NodeIds |-> NoForward],
     level |-> [n \in NodeIds |-> 0],
     live |-> [n \in NodeIds |-> FALSE],
     sentinel_node |-> [c \in Containers |-> NULL],
     num_elements |-> [c \in Containers |-> 0],
     skip_list_heads |-> [c \in Containers |-> FALSE],
     current_max_level |-> [c \in Containers |-> 0],
     constructed |-> [c \in Containers |-> FALSE],
     status |-> "ok"]

\* Container a;
Started == {DefaultCtor(Blank, "a", n) : n \in allocate(Blank)}

Load(h0, op) ==
    \E h \in {Renamed(h0)} :
       /\ value = h.value
       /\ prev = h.prev
       /\ next = h.next
       /\ forward = h.forward
       /\ level = h.level
       /\ live = h.live
       /\ sentinel_node = h.sentinel_node
       /\ num_elements = h.num_elements
       /\ skip_list_heads = h.skip_list_heads
       /\ current_max_level = h.current_max_level
       /\ constructed = h.constructed
       /\ status = h.status
       /\ last = op
       /\ aged = 0

Init == \E h \in Started : Load(h, Op("ctor", "none"))

Construct(c) ==
    /\ Running /\ ~constructed[c]
    /\ \E n \in allocate(Cur) : Commit(DefaultCtor(Cur, c, n))
    /\ last' = Op("ctor", "none")

CopyConstruct(c, d) ==
    /\ Running /\ ~constructed[c] /\ constructed[d]
    /\ \E h \in CopyCtor(Cur, c, d) : Commit(h)
    /\ last' = Op("copy_ctor", "none")

MoveConstruct(c, d) ==
    /\ Running /\ ~constructed[c] /\ constructed[d]
    /\ Commit(MoveCtor(Cur, c, d))
    /\ last' = Op("move_ctor", "none")

Destroy(c) ==
    /\ Running /\ constructed[c]
    /\ Commit(Dtor(Cur, c))
    /\ last' = Op("dtor", "none")

CopyAssignment(c, d) ==
    /\ Running /\ constructed[c] /\ constructed[d]
    /\ \E h \in CopyAssign(Cur, c, d) : Commit(h)
    /\ last' = Op("copy_assign", "none")

MoveAssignment(c, d) ==
    /\ Running /\ constructed[c] /\ constructed[d]
    /\ Commit(MoveAssign(Cur, c, d))
    /\ last' = Op("move_assign", "none")

Swap(c, d) ==
    /\ Running /\ constructed[c] /\ constructed[d] /\ c # d
    /\ Commit(swap(Cur, c, d))
    /\ last' = Op("swap", "none")

Clear(c) ==
    /\ Running /\ constructed[c]
    /\ \E n \in ClearAddrs(Cur, c) : Commit(clear(Cur, c, n))
    /\ last' = Op("clear", "none")

\* insert(pos, value), push_front(value) and push_back(value): the last two
\* call insert(end(), value), and insert does not read pos.
Insert(c, v) ==
    /\ Running /\ constructed[c]
    /\ num_elements[c] < MaxNodes
    /\ \E dr \in DrawSeqs, n \in allocate(Cur) :
          Commit(insert(Cur, c, v, get_random_level(dr), n))
    /\ last' = Op("insert", "none")

\* erase(pos) with the cursor of an element of c, with end() or with a
\* default-constructed (null) cursor.
Erase(c, pos) ==
    /\ Running /\ constructed[c]
    /\ pos \in Cursors(Cur, c) \cup {NULL, sentinel_node[c]}
    /\ \E r \in {erase(Cur, c, pos)} :
          Commit(r.h) /\ last' = Op("erase", r.thrown)

PopFront(c) ==
    /\ Running /\ constructed[c]
    /\ \E r \in {pop_front(Cur, c)} :
          Commit(r.h) /\ last' = Op("pop_front", r.thrown)

PopBack(c) ==
    /\ Running /\ constructed[c]
    /\ \E r \in {pop_back(Cur, c)} :
          Commit(r.h) /\ last' = Op("pop_back", r.thrown)

\* find(value) and contains(value): they change nothing, unless the lookup is
\* undefined or never returns.
Find(c, v) ==
    /\ Running /\ constructed[c]
    /\ Commit(Fail(Cur, find_node_in_skip_list(Cur, c, v).st))
    /\ last' = Op("find", "none")

\* An insert that counts the element before it allocates the node.
InsertCountingFirst(h0, c, val, node_level, n) ==
    IF n = NULL THEN Res([h0 EXCEPT !.num_elements[c] = @ + 1], NULL, "bad_alloc")
    ELSE Res(insert(h0, c, val, node_level, n), n, "none")

\* insert with what it gives its caller.  n = NULL stands for an allocation
\* or a construction that throws: allocate_and_construct_node is called before
\* anything is read or written, it deallocates what it allocated, and the
\* exception leaves insert.  Otherwise insert returns iterator(new_node).
insert_result(h0, c, val, node_level, n) ==
    IF n = NULL THEN Res(h0, NULL, "bad_alloc")
    ELSE Res(insert(h0, c, val, node_level, n), n, "none")

\* insert when no address is free: node_allocator.allocate(1) throws.
InsertNoMemory(c, v) ==
    /\ Running /\ constructed[c]
    /\ allocate(Cur) = {}
    /\ \E dr \in DrawSeqs :
          \E r \in {insert_result(Cur, c, v, get_random_level(dr), NULL)} :
              Commit(r.h) /\ last' = Op("insert", r.thrown)

Next ==
    \/ \E c \in Containers : Construct(c)
    \/ \E c, d \in Containers : CopyConstruct(c, d)
    \/ \E c, d \in Containers : MoveConstruct(c, d)
    \/ Destroy("b")
    \/ \E c, d \in Containers : CopyAssignment(c, d)
    \/ \E c, d \in Containers : MoveAssignment(c, d)
    \/ \E c, d \in Containers : Swap(c, d)
    \/ \E c \in Containers : Clear(c)
    \/ \E c \in Containers, v \in Values : Insert(c, v)
    \/ \E c \in Containers, v \in Values : InsertNoMemory(c, v)
    \/ \E c \in Containers, pos \in Ptr : Erase(c, pos)
    \/ \E c \in Containers : PopFront(c)
    \/ \E c \in Containers : PopBack(c)
    \/ \E c \in Containers, v \in Values : Find(c, v)

Spec == Init /\ [][Next]_vars

\* ------------------------------------------------- a container and its copy

\* Container a; at most one a.insert(...); Container b(a);
Seeded ==
    Started \cup UNION {{insert(h, "a", v, lvl, n) :
                            <<v, lvl, n>> \in Values \X DrawLevels \X allocate(h)} : h \in Started}

CopiedMemories == UNION {CopyCtor(h, "b", "a") : h \in Seeded}

InitCopied == \E h \in CopiedMemories : Load(h, Op("copy_ctor", "none"))

\* After the copy: insert, erase, pop and clear on either container.
NextCopied ==
    \/ \E c \in Containers : Clear(c)
    \/ \E c \in Containers, v \in Values : Insert(c, v)
    \/ \E c \in Containers, pos \in Ptr : Erase(c, pos)
    \/ \E c \in Containers : PopFront(c)
    \/ \E c \in Containers : PopBack(c)

SpecCopied == InitCopied /\ [][NextCopied]_vars

\* ------------------------------------------------------------ observations

\* *it for every cursor of a traversal
ValuesOf(h, nodes) == [k \in DOMAIN nodes |-> h.value[nodes[k]]]

\* for (const auto& val : c): whether the traversal is defined and ends, and
\* the values it yields.
Yielded(h, r) == [st |-> r.st, values |-> ValuesOf(h, r.nodes)]

Traversal(h, c) == Yielded(h, Ring(h, c))

\* The nodes met by following forward[i] from the sentinel until the sentinel
\* comes again, as the loops of the descent follow it.
RECURSIVE ChainFrom(_, _, _, _, _, _)
ChainFrom(h, sent, it, i, acc, fuel) ==
    IF it = sent THEN [st |-> "ok", nodes |-> acc]
    ELSE IF ~Ok(h, it) \/ i > h.level[it] THEN [st |-> "ub", nodes |-> acc]
    ELSE IF fuel = 0 THEN [st |-> "hang", nodes |-> acc]
    ELSE ChainFrom(h, sent, h.forward[it][i], i, Append(acc, it), fuel - 1)

Chain(h, c, i) ==
    IF ~Ok(h, h.sentinel_node[c]) THEN [st |-> "ub", nodes |-> <<>>]
    ELSE ChainFrom(h, h.sentinel_node[c], h.forward[h.sentinel_node[c]][i], i, <<>>, MaxNodes)

\* The levels a descent can start from: update[] has MAX_SKIP_LEVEL entries.
IndexLevels == 0..(MAX_SKIP_LEVEL - 1)

\* What the other container's user can see of container d: its ring, its
\* index chains, size() and current_max_level.
View(h, d) ==
    [ring |-> Ring(h, d),
     values |-> ValuesOf(h, Ring(h, d).nodes),
     chains |-> [i \in IndexLevels |-> Chain(h, d, i)],
     size |-> h.num_elements[d],
     current_max_level |-> h.current_max_level[d]]

\* Container c(std::move(d)) where c does not exist yet, c = std::move(d)
\* where it does.
Moved(h, c, d) == IF h.constructed[c] THEN MoveAssign(h, c, d) ELSE MoveCtor(h, c, d)

\* Container c(d) where c does not exist yet, c = d where it does.
Copied(h, c, d) == IF h.constructed[c] THEN CopyAssign(h, c, d) ELSE CopyCtor(h, c, d)

\* Every memory one insert, erase, pop or clear on c can leave.
Mutations(h, c) ==
    {insert(h, c, v, lvl, n) : <<v, lvl, n>> \in Values \X DrawLevels \X allocate(h)}
    \cup {erase(h, c, pos).h : pos \in Cursors(h, c)}
    \cup {pop_front(h, c).h, pop_back(h, c).h}
    \cup {clear(h, c, n) : n \in ClearAddrs(h, c)}

\* A container the program has constructed and not moved from.
Usable(c) == status = "ok" /\ constructed[c] /\ sentinel_node[c] # NULL

\* ------------------------------------------------------------------ claims

\* C1: after any sequence of public operations, traversing the ring of a
\* container from sentinel.next to sentinel.prev yields the values in
\* non-decreasing order.
C1_RingSorted ==
    \A c \in Containers :
        Usable(c) =>
            \A t \in {Traversal(Cur, c)} :
                t.st = "ok" => \A k \in 1..(Len(t.values) - 1) : t.values[k] <= t.values[k + 1]

\* C2: after any sequence of public operations, size() is the number of
\* non-sentinel nodes a full ring traversal visits and also the number of
\* non-sentinel nodes met by following forward[0] from the sentinel back to
\* the sentinel.
C2_CountsAgree ==
    \A c \in Containers :
        Usable(c) =>
            /\ Ring(Cur, c).st = "ok"
            /\ Len(Ring(Cur, c).nodes) = num_elements[c]
            /\ Chain(Cur, c, 0).st = "ok"
            /\ Len(Chain(Cur, c, 0).nodes) = num_elements[c]

\* C3: erase(position) with the cursor of an element of the container, called
\* on memory that no earlier erase has damaged, removes exactly that node,
\* also when it is not the leftmost of a run of equal values: afterwards the
\* node is destroyed, it is not in the ring, and no link of a remaining node
\* (next, prev, forward[i] at any level) designates it.
C3_EraseRemovesTheNode ==
    \A c \in Containers :
        (Usable(c) /\ aged = 0) =>
            \A pos \in Cursors(Cur, c) :
                \A r \in {erase(Cur, c, pos)} :
                    /\ r.thrown = "none"
                    /\ r.h.status = "ok"
                    /\ ~r.h.live[pos]
                    /\ pos \notin Cursors(r.h, c)
                    /\ ~Designated(r.h, pos)

\* C4: after any sequence of inserts and erases, contains(v) is true exactly
\* when some non-sentinel node of the ring holds v.
C4_ContainsIffHeld ==
    \A c \in Containers, v \in Values :
        (Usable(c) /\ Ring(Cur, c).st = "ok" /\ find_node_in_skip_list(Cur, c, v).st = "ok") =>
            (contains(Cur, c, v) <=> \E n \in Cursors(Cur, c) : value[n] = v)

\* C5: find(v) returns the cursor of the leftmost node in ring order whose
\* value is v when there is one, and end() otherwise.
C5_FindLeftmost ==
    \A c \in Containers, v \in Values :
        (Usable(c) /\ Ring(Cur, c).st = "ok" /\ find_node_in_skip_list(Cur, c, v).st = "ok") =>
            \A nodes \in {Ring(Cur, c).nodes} :
                IF \E k \in DOMAIN nodes : value[nodes[k]] = v
                THEN \E k \in DOMAIN nodes :
                        /\ find(Cur, c, v) = nodes[k]
                        /\ value[nodes[k]] = v
                        /\ \A j \in 1..(k - 1) : value[nodes[j]] # v
                ELSE find(Cur, c, v) = sentinel_node[c]

\* C6: round trip.  In every state of a container and for every v: after
\* insert(v), find(v) is not end() and its node holds v; after erasing that
\* cursor, contains(v) is true exactly when the container held a v before
\* the insert.
C6_RoundTrip ==
    \A c \in Containers, v \in Values, lvl \in DrawLevels :
        Usable(c) =>
            \A n \in allocate(Cur) :
                \A h1 \in {insert(Cur, c, v, lvl, n)} :
                \A f \in {find_node_in_skip_list(h1, c, v)} :
                    /\ h1.status = "ok"
                    /\ f.st = "ok"
                    /\ f.node # NULL
                    /\ h1.value[f.node] = v
                    /\ \A r \in {erase(h1, c, f.node)} :
                          /\ r.thrown = "none"
                          /\ r.h.status = "ok"
                          /\ find_node_in_skip_list(r.h, c, v).st = "ok"
                          /\ (contains(r.h, c, v) <=> \E m \in Cursors(Cur, c) : value[m] = v)

\* C7: after move construction or move assignment the source is empty, has a
\* sentinel of its own, and traversal, find, contains and insert on it do
\* what they do on a freshly constructed empty container.
C7_MovedFromIsEmptyContainer ==
    \A c \in Containers : \A d \in Containers \ {c} :
        (Usable(d) /\ aged = 0) =>
            \A h \in {Moved(Cur, c, d)} :
                /\ h.status = "ok"
                /\ h.num_elements[d] = 0
                /\ Ok(h, h.sentinel_node[d])
                /\ h.sentinel_node[d] # h.sentinel_node[c]
                /\ Traversal(h, d) = [st |-> "ok", values |-> <<>>]
                /\ \A v \in Values : find_node_in_skip_list(h, d, v) = [st |-> "ok", node |-> NULL]
                /\ \A v \in Values, lvl \in DrawLevels, n \in allocate(h) :
                      Traversal(insert(h, d, v, lvl, n), d) = [st |-> "ok", values |-> <<v>>]

\* C8: after move construction or move assignment the target's ring, the
\* values its traversal yields and its size are the source's immediately
\* before the move (a source that was itself moved from has no traversal
\* before and the target has none after); after a move assignment from another
\* container every node the target held before is destroyed.
C8_MoveTransfers ==
    \A c \in Containers, d \in Containers :
        (status = "ok" /\ constructed[d]) =>
            \A h \in {Moved(Cur, c, d)} :
                /\ h.status = "ok"
                /\ Ring(h, c) = Ring(Cur, d)
                /\ Traversal(h, c) = Traversal(Cur, d)
                /\ h.num_elements[c] = num_elements[d]
                /\ (c # d =>
                      \A m \in (Cursors(Cur, c) \cup {sentinel_node[c]}) \ {NULL} : ~h.live[m])

\* A move assignment into a container that held elements has run: the target
\* holds the source's elements and the source is left without a sentinel.
C8_Moved ==
    /\ status = "ok"
    /\ last.op = "move_assign"
    /\ \E c \in Containers : \E d \in Containers \ {c} :
          /\ num_elements[c] > 0
          /\ Ring(Cur, c).st = "ok"
          /\ constructed[d] /\ sentinel_node[d] = NULL

\* C9: after copy construction or copy assignment the values the target's
\* traversal yields and its size are the source's; the source's ring, index
\* and size are what they were, and after a copy assignment every node the
\* target held before is destroyed.
C9_CopyEqualsSource ==
    \A c \in Containers : \A d \in Containers \ {c} :
        (status = "ok" /\ constructed[d] /\ aged = 0) =>
            \A h \in Copied(Cur, c, d) :
                /\ h.status = "ok"
                /\ Traversal(h, c).st = "ok"
                /\ Traversal(h, c) = Traversal(Cur, d)
                /\ h.num_elements[c] = num_elements[d]
                /\ View(h, d) = View(Cur, d)
                /\ \A m \in Cursors(Cur, c) : ~h.live[m] \/ m \in Cursors(h, c)

\* C10: copy independence.  Once b has been made as a copy of a, an insert,
\* erase, pop or clear on one of the two that runs to its end leaves the
\* other's ring, index chains, size and current_max_level as they were,
\* whenever these were there to be observed before.
C10_CopyIndependent ==
    \A c \in Containers : \A d \in Containers \ {c} :
        (/\ Usable(c) /\ Usable(d)
         /\ View(Cur, d).ring.st = "ok"
         /\ \A i \in IndexLevels : View(Cur, d).chains[i].st = "ok") =>
            \A h \in Mutations(Cur, c) : h.status = "ok" => View(h, d) = View(Cur, d)

\* The nodes linked into the ring of c or into a chain of its index.
Linked(h, c) ==
    Range(Ring(h, c).nodes) \cup UNION {Range(Chain(h, c, i).nodes) : i \in 0..TopLevel}

\* C11: single ownership.  In every reachable state in which both containers
\* hold a sentinel, the two sentinels are different nodes and no node is
\* linked into the ring or the index of both.
C11_SingleOwner ==
    (Usable("a") /\ Usable("b")) =>
        /\ sentinel_node["a"] # sentinel_node["b"]
        /\ Linked(Cur, "a") \cap Linked(Cur, "b") = {}

\* An insert that splices the new node into the ring before the hint and
\* links it into the index by value.
InsertSplicing(h1, c, pos, node_level, n, d) ==
    IF d.st # "ok" THEN Fail(h1, d.st)
    ELSE IF ~Ok(h1, pos) THEN Fail(h1, "ub")
    ELSE InsertLinked(insert_dll_node_before(h1, c, n, pos), c, node_level, n, d.update)

InsertAtHint(h0, c, pos, val, node_level, n) ==
    OrFail(h0, InsertSplicing(allocate_and_construct_node(h0, n, val, node_level), c, pos,
                              node_level, n,
                              Descent(allocate_and_construct_node(h0, n, val, node_level),
                                      c, val)))

\* An insert that inserts nothing when the cursor is null, the sentinel or
\* not an element of the container.
InsertChecked(h0, c, pos, val, node_level, n) ==
    IF pos \notin Cursors(h0, c) THEN h0 ELSE insert(h0, c, val, node_level, n)

\* iterator insert([[maybe_unused]] const_iterator pos, const value_type& value):
\* the body never reads pos.
insert_hint(h0, c, pos, val, node_level, n) == insert(h0, c, val, node_level, n)

\* void push_front(const value_type& value) { insert(end(), value); }
push_front(h, c, val, node_level, n) ==
    insert_hint(h, c, h.sentinel_node[c], val, node_level, n)

\* A push_back that splices the new node into the ring before end() instead
\* of before the node the descent found.
PushBackAtEnd(h, c, val, node_level, n) ==
    InsertAtHint(h, c, h.sentinel_node[c], val, node_level, n)

\* void push_back(const value_type& value) { insert(end(), value); }
push_back(h, c, val, node_level, n) ==
    insert_hint(h, c, h.sentinel_node[c], val, node_level, n)

\* begin(), end() and the cursor of every element of c
Hints(h, c) == Cursors(h, c) \cup {h.sentinel_node[c], h.next[h.sentinel_node[c]]}

\* The traversals of c after insert(hint, v), push_front(v) or push_back(v),
\* over every hint, every level drawn and every address allocated.
AfterInsert(h, c, v) ==
    {Traversal(h1, c) :
        h1 \in {g \in {insert_hint(h, c, pos, v, lvl, n) :
                          <<pos, lvl, n>> \in Hints(h, c) \X DrawLevels \X allocate(h)}
                      \cup {push_front(h, c, v, lvl, n) :
                               <<lvl, n>> \in DrawLevels \X allocate(h)}
                      \cup {push_back(h, c, v, lvl, n) :
                               <<lvl, n>> \in DrawLevels \X allocate(h)}
                  : g.status = "ok"}}

\* C12: the position of a new value depends on the value alone.  In every
\* state of a container and for every v, insert(hint, v) with any hint
\* (begin(), end() or an element), push_front(v) and push_back(v) that run
\* to their end all leave the same sequence of values in the ring.
C12_HintIgnored ==
    \A c \in Containers, v \in Values :
        (Usable(c) /\ Ok(Cur, sentinel_node[c])) => Cardinality(AfterInsert(Cur, c, v)) <= 1

\* A container holds a 0 and a 2 after an insert: for the value 1 the hints
\* begin() and end() both conflict with the sorted position.
C12_ConflictingHints ==
    /\ status = "ok" /\ last.op = "insert"
    /\ \E c \in Containers :
          /\ Usable(c) /\ allocate(Cur) # {}
          /\ Traversal(Cur, c) = [st |-> "ok", values |-> <<0, 2>>]
          /\ AfterInsert(Cur, c, 1) = {[st |-> "ok", values |-> <<0, 1, 2>>]}

\* ---------------------------------------------------------- erase(first, last)

\* while (first != last) first = erase(first); return iterator(last);
\* past is the parameter last.  An exception of erase leaves the loop with
\* what was erased before it.
RECURSIVE EraseLoop(_, _, _, _, _)
RECURSIVE EraseNext(_, _, _, _)
EraseLoop(h, c, first, past, fuel) ==
    IF first = past THEN Res(h, past, "none")
    ELSE IF fuel = 0 THEN Res(Fail(h, "hang"), NULL, "none")
    ELSE EraseNext(erase(h, c, first), c, past, fuel)

\* first = (what erase returned)
EraseNext(r, c, past, fuel) ==
    IF r.thrown # "none" \/ r.h.status # "ok" THEN r
    ELSE EraseLoop(r.h, c, r.ret, past, fuel - 1)

\* Container::erase(const_iterator first, const_iterator past)
erase_range(h, c, first, past) == EraseLoop(h, c, first, past, MaxNodes)

\* The cursors of a traversal and end(): position Len(nodes) + 1 is end().
CursorAt(h, c, nodes, k) == IF k <= Len(nodes) THEN nodes[k] ELSE h.sentinel_node[c]

\* erase(first, last) with last reachable from first by ++
EraseRange(c, j, k) ==
    /\ Running /\ Usable(c) /\ Ring(Cur, c).st = "ok"
    /\ j <= k /\ k <= Len(Ring(Cur, c).nodes) + 1
    /\ \E r \in {erase_range(Cur, c, CursorAt(Cur, c, Ring(Cur, c).nodes, j),
                                     CursorAt(Cur, c, Ring(Cur, c).nodes, k))} :
          Commit(r.h) /\ last' = Op("erase_range", r.thrown)

\* ------------------------------------------- containers built from sequences

\* The sequences a range, an initializer list or a count of copies can be.
Inputs == UNION {[1..k -> Values] : k \in 0..MaxLen}

\* for (; first != last; ++first) push_back(*first);
RECURSIVE PushEach(_, _, _)
PushEach(h, c, seq) ==
    IF h.status # "ok" \/ seq = <<>> THEN {h}
    ELSE UNION { PushEach(push_back(h, c, Head(seq), lvl, n), c, Tail(seq))
                 : <<lvl, n>> \in DrawLevels \X allocate(h) }

\* Container(InputIt first, InputIt last) and Container(std::initializer_list)
RangeCtor(h, c, seq) == UNION { PushEach(DefaultCtor(h, c, n), c, seq) : n \in allocate(h) }

\* Container(size_type count, const value_type& value)
CountCtor(h, c, count, val) == RangeCtor(h, c, [k \in 1..count |-> val])

\* insert(pos, first, last) and insert(pos, ilist): insert(end(), *it) for
\* every element of the range.
RECURSIVE insert_range(_, _, _)
insert_range(h, c, seq) ==
    IF h.status # "ok" \/ seq = <<>> THEN {h}
    ELSE UNION { insert_range(insert_hint(h, c, h.sentinel_node[c], Head(seq), lvl, n),
                              c, Tail(seq))
                 : <<lvl, n>> \in DrawLevels \X allocate(h) }

\* The loop of insert(pos, count, value): insert(end(), value) count times,
\* keeping the cursor of the first node inserted, or of a later one whose
\* value is smaller.
RECURSIVE InsertCountLoop(_, _, _, _, _, _)
InsertCountLoop(h, c, val, left, first_inserted_it, first_set) ==
    IF h.status # "ok" THEN {Res(h, NULL, "none")}
    ELSE IF left = 0 THEN {Res(h, first_inserted_it, "none")}
    ELSE IF allocate(h) = {} THEN {Res(h, NULL, "bad_alloc")}
    ELSE UNION { InsertCountLoop(insert_hint(h, c, h.sentinel_node[c], val, lvl, n), c, val,
                                 left - 1,
                                 IF \/ ~first_set
                                    \/ /\ n # h.sentinel_node[c]
                                       /\ val < h.value[first_inserted_it]
                                 THEN n ELSE first_inserted_it,
                                 TRUE)
                 : <<lvl, n>> \in DrawLevels \X allocate(h) }

\* insert(pos, count, value) without the early return for count == 0
InsertCountLooping(h, c, pos, count, val) ==
    IF ~Ok(h, h.sentinel_node[c]) THEN {Res(Fail(h, "ub"), NULL, "none")}
    ELSE InsertCountLoop(h, c, val, count, h.sentinel_node[c], FALSE)

\* iterator insert(const_iterator pos, size_type count, const value_type& value)
insert_count(h, c, pos, count, val) ==
    IF count = 0 THEN {Res(h, pos, "none")}
    ELSE IF ~Ok(h, h.sentinel_node[c]) THEN {Res(Fail(h, "ub"), NULL, "none")}
    ELSE InsertCountLoop(h, c, val, count, h.sentinel_node[c], FALSE)

\* The operation that ran last, with the sequence it was given.
OpOn(name, seq) == [op |-> name, thrown |-> "none", input |-> seq]

RangeConstruct(c, seq) ==
    /\ Running /\ ~constructed[c]
    /\ \E h \in RangeCtor(Cur, c, seq) : Commit(h)
    /\ last' = OpOn("range_ctor", seq)

CountConstruct(c, count, v) ==
    /\ Running /\ ~constructed[c]
    /\ \E h \in CountCtor(Cur, c, count, v) : Commit(h)
    /\ last' = OpOn("count_ctor", [k \in 1..count |-> v])

\* c.insert(c.end(), first, last) on an empty container
InsertRange(c, seq) ==
    /\ Running /\ Usable(c) /\ num_elements[c] = 0
    /\ \E h \in insert_range(Cur, c, seq) : Commit(h)
    /\ last' = OpOn("insert_range", seq)

\* c.insert(pos, count, v) with pos a cursor of c, end() included
InsertCount(c, pos, count, v) ==
    /\ Running /\ Usable(c) /\ pos \in Hints(Cur, c)
    /\ \E r \in insert_count(Cur, c, pos, count, v) :
          /\ Commit(r.h)
          /\ last' = [op |-> "insert_count", thrown |-> r.thrown,
                      input |-> [k \in 1..count |-> v]]

\* Container a; then b is constructed from a sequence, or constructed empty
\* and filled from one, and destroyed again, while a is inserted into and
\* erased from.
NextBuilt ==
    \/ \E seq \in Inputs : RangeConstruct("b", seq)
    \/ \E count \in 0..MaxLen, v \in Values : CountConstruct("b", count, v)
    \/ Construct("b")
    \/ \E seq \in Inputs : InsertRange("b", seq)
    \/ \E pos \in Ptr, count \in 0..MaxLen, v \in Values : InsertCount("b", pos, count, v)
    \/ Destroy("b")
    \/ \E v \in Values : Insert("a", v)
    \/ \E pos \in Ptr : Erase("a", pos)
    \/ \E j, k \in 1..(MaxLen + 1) : EraseRange("b", j, k)

SpecBuilt == Init /\ [][NextBuilt]_vars

\* The values v of seq, each as often as seq holds it, in ascending order.
RECURSIVE SortedFrom(_, _)
SortedFrom(seq, v) ==
    IF v > MaxVal THEN <<>>
    ELSE [k \in 1..Cardinality({j \in DOMAIN seq : seq[j] = v}) |-> v] \o SortedFrom(seq, v + 1)

Sorted(seq) == SortedFrom(seq, 0)

\* C13: a container constructed from a sequence of values (a range, an
\* initializer list, count copies of one value), or constructed empty and
\* given the sequence to insert, has the length of the sequence as its size,
\* and its traversal yields the values of the sequence in non-decreasing
\* order, each as often as the sequence holds it.
C13_BuiltSorted ==
    (status = "ok" /\ last.op \in {"range_ctor", "count_ctor", "insert_range"}) =>
        /\ num_elements["b"] = Len(last.input)
        /\ Traversal(Cur, "b") = [st |-> "ok", values |-> Sorted(last.input)]

\* b has been built from a sequence of MaxLen values that was not in order
\* and held a value twice.
C13_BuiltFromUnordered ==
    /\ status = "ok" /\ last.op \in {"range_ctor", "insert_range"}
    /\ Len(last.input) = MaxLen
    /\ last.input # Sorted(last.input)
    /\ \E j, k \in DOMAIN last.input : j # k /\ last.input[j] = last.input[k]
    /\ num_elements["b"] = MaxLen

\* m comes before n in the sequence of nodes
Before(nodes, m, n) ==
    \E j \in DOMAIN nodes, k \in DOMAIN nodes : j < k /\ nodes[j] = m /\ nodes[k] = n

\* C14: insert(v) into a container that holds elements equal to v, on memory
\* no erase has damaged, places the new node after every one of them, in
\* the ring and in the level-0 chain.
C14_InsertAfterEquals ==
    \A c \in Containers, v \in Values, lvl \in DrawLevels :
        (Usable(c) /\ aged = 0) =>
            \A n \in allocate(Cur) :
                \A h1 \in {insert(Cur, c, v, lvl, n)} :
                    \A m \in {k \in Cursors(Cur, c) : value[k] = v} :
                        /\ h1.status = "ok"
                        /\ Before(Ring(h1, c).nodes, m, n)
                        /\ Before(Chain(h1, c, 0).nodes, m, n)

\* The cursor that follows nodes[k] in a traversal: the next element, or
\* end() after the last.
Following(h, c, nodes, k) == IF k < Len(nodes) THEN nodes[k + 1] ELSE h.sentinel_node[c]

\* C15: erase(position) with the cursor of an element returns the cursor of
\* the node that followed it in ring order before the erase, end() when it
\* was the last element, and size() is one less than before.
C15_EraseReturnsNext ==
    \A c \in Containers :
        (Usable(c) /\ Ring(Cur, c).st = "ok") =>
            \A nodes \in {Ring(Cur, c).nodes} :
                \A k \in DOMAIN nodes :
                    \A r \in {erase(Cur, c, nodes[k])} :
                        /\ r.thrown = "none"
                        /\ r.h.status = "ok"
                        /\ r.ret = Following(Cur, c, nodes, k)
                        /\ r.h.num_elements[c] = num_elements[c] - 1
                        /\ r.ret = r.h.sentinel_node[c] \/ r.h.live[r.ret]

\* nodes without the positions j .. k - 1
Without(nodes, j, k) == SubSeq(nodes, 1, j - 1) \o SubSeq(nodes, k, Len(nodes))

\* C16: erase(first, last) with last reachable from first, on memory no
\* earlier call has damaged, removes the nodes from first up to but not
\* including last and no other, leaves the remaining elements in their
\* order, and returns last.
C16_EraseRangeRemovesRange ==
    \A c \in Containers :
        (Usable(c) /\ aged = 0 /\ Ring(Cur, c).st = "ok") =>
            \A nodes \in {Ring(Cur, c).nodes} :
                \A k \in 1..(Len(nodes) + 1) : \A j \in 1..k :
                    \A r \in {erase_range(Cur, c, CursorAt(Cur, c, nodes, j),
                                                   CursorAt(Cur, c, nodes, k))} :
                        /\ r.thrown = "none"
                        /\ r.h.status = "ok"
                        /\ r.ret = CursorAt(Cur, c, nodes, k)
                        /\ Ring(r.h, c) = [st |-> "ok", nodes |-> Without(nodes, j, k)]
                        /\ \A m \in j..(k - 1) : ~r.h.live[nodes[m]]

\* ------------------------------------------------------------ front / back

\* What a call that returns a value gives: the exception thrown, or the value;
\* st is "ub" when the call reads through an invalid pointer.
Got(st, thrown, val) == [st |-> st, thrown |-> thrown, val |-> val]

\* reference front(): sentinel_node->next->value
front(h, c) ==
    IF h.num_elements[c] = 0 THEN Got("ok", "out_of_range", 0)
    ELSE IF ~Ok(h, h.sentinel_node[c]) \/ ~Ok(h, h.next[h.sentinel_node[c]])
         THEN Got("ub", "none", 0)
         ELSE Got("ok", "none", h.value[h.next[h.sentinel_node[c]]])

\* reference back(): sentinel_node->prev->value
back(h, c) ==
    IF h.num_elements[c] = 0 THEN Got("ok", "out_of_range", 0)
    ELSE IF ~Ok(h, h.sentinel_node[c]) \/ ~Ok(h, h.prev[h.sentinel_node[c]])
         THEN Got("ub", "none", 0)
         ELSE Got("ok", "none", h.value[h.prev[h.sentinel_node[c]]])

\* C17: on an empty container front(), back(), pop_front() and pop_back()
\* each throw out_of_range, and the two pops leave memory (ring, index, size,
\* current_max_level of every container) as it was.
C17_EmptyAccessThrows ==
    \A c \in Containers :
        (status = "ok" /\ constructed[c] /\ num_elements[c] = 0) =>
            /\ front(Cur, c) = Got("ok", "out_of_range", 0)
            /\ back(Cur, c) = Got("ok", "out_of_range", 0)
            /\ pop_front(Cur, c) = Res(Cur, NULL, "out_of_range")
            /\ pop_back(Cur, c) = Res(Cur, NULL, "out_of_range")

\* pop_back() has been called on an empty container and has thrown.
C17_PoppedEmpty ==
    /\ status = "ok"
    /\ last = Op("pop_back", "out_of_range")
    /\ \E c \in Containers : constructed[c] /\ num_elements[c] = 0

\* C18: erase(position) with end() (the sentinel) or with a null cursor
\* throws invalid_argument and leaves memory as it was.
C18_EraseEndThrows ==
    \A c \in Containers :
        (status = "ok" /\ constructed[c]) =>
            /\ erase(Cur, c, NULL) = Res(Cur, NULL, "invalid_argument")
            /\ erase(Cur, c, sentinel_node[c]) = Res(Cur, NULL, "invalid_argument")

\* erase has thrown on a container that holds elements: it was given end()
\* or a null cursor.
C18_ErasedAtEnd ==
    /\ status = "ok"
    /\ last = Op("erase", "invalid_argument")
    /\ \A c \in Containers : Usable(c) /\ num_elements[c] > 0

\* C19: erase called on one container with the cursor of an element of the
\* other, on memory no erase has damaged, throws invalid_argument and leaves
\* both containers (rings, index chains, sizes) as they were.
C19_ForeignCursorRejected ==
    \A c \in Containers : \A d \in Containers \ {c} :
        (Usable(c) /\ Usable(d) /\ aged = 0) =>
            \A pos \in Cursors(Cur, d) :
                \A r \in {erase(Cur, c, pos)} :
                    /\ r.thrown = "invalid_argument"
                    /\ r.h.status = "ok"
                    /\ View(r.h, c) = View(Cur, c)
                    /\ View(r.h, d) = View(Cur, d)

\* The cursors C20 is about: null, end() and the elements of the other
\* container.
BadCursors(h, c) ==
    {NULL, h.sentinel_node[c]}
        \cup UNION {IF h.sentinel_node[d] = NULL THEN {} ELSE Cursors(h, d)
                    : d \in Containers \ {c}}

C21_FailedInsertChangesNothing ==
    \A c \in Containers, v \in Values, lvl \in DrawLevels :
        (status = "ok" /\ constructed[c]) =>
            \A r \in {insert_result(Cur, c, v, lvl, NULL)} :
                /\ r.thrown = "bad_alloc"
                /\ r.h = Cur

\* An insert has thrown because no address was free, on a container that
\* holds elements.
C21_InsertThrew ==
    /\ status = "ok"
    /\ last = Op("insert", "bad_alloc")
    /\ FreeIds(Cur) = {}
    /\ \E c \in Containers : Usable(c) /\ num_elements[c] > 0

\* size() == 0, begin() == end(), current_max_level == 0 and every forward
\* level of the sentinel designates the sentinel.
EmptyState(h, c) ==
    /\ h.status = "ok"
    /\ Ok(h, h.sentinel_node[c])
    /\ h.num_elements[c] = 0
    /\ h.next[h.sentinel_node[c]] = h.sentinel_node[c]
    /\ h.prev[h.sentinel_node[c]] = h.sentinel_node[c]
    /\ h.current_max_level[c] = 0
    /\ \A i \in IndexLevels : h.forward[h.sentinel_node[c]][i] = h.sentinel_node[c]

\* C22: clear() in any state of a container leaves size() == 0,
\* begin() == end(), current_max_level == 0 and every forward level of the
\* sentinel designating the sentinel; a second clear() leaves the same empty
\* state.
C22_ClearEmpties ==
    \A c \in Containers :
        (status = "ok" /\ constructed[c]) =>
            \A n \in ClearAddrs(Cur, c) :
                \A h1 \in {clear(Cur, c, n)} :
                    /\ EmptyState(h1, c)
                    /\ \A m \in ClearAddrs(h1, c) :
                          \A h2 \in {clear(h1, c, m)} :
                              /\ EmptyState(h2, c)
                              /\ View(h2, c).values = View(h1, c).values
                              /\ \A d \in Containers \ {c} :
                                    h2.sentinel_node[d] = h1.sentinel_node[d]

\* clear() has run: a container is in the empty state while the other one
\* holds elements.
C22_Cleared ==
    /\ status = "ok" /\ last.op = "clear"
    /\ \E c \in Containers : EmptyState(Cur, c)
    /\ \E c \in Containers : Usable(c) /\ num_elements[c] > 0

\* C23: a.swap(b) exchanges all owned state: afterwards the ring, the
\* values, the index chains, the size and current_max_level of each are
\* those the other had before, and a second swap restores memory as it was.
C23_SwapExchanges ==
    \A c \in Containers : \A d \in Containers \ {c} :
        (status = "ok" /\ constructed[c] /\ constructed[d]) =>
            \A h1 \in {swap(Cur, c, d)} :
                /\ h1.status = "ok"
                /\ View(h1, c) = View(Cur, d)
                /\ View(h1, d) = View(Cur, c)
                /\ swap(h1, c, d) = Cur

\* A swap has run between two containers that differ in size and in
\* current_max_level.
C23_Swapped ==
    /\ status = "ok" /\ last.op = "swap"
    /\ Usable("a") /\ Usable("b")
    /\ num_elements["a"] # num_elements["b"]
    /\ current_max_level["a"] # current_max_level["b"]

\* C24: on every container that holds elements, front() returns the least
\* and back() the greatest of the values a traversal yields.
C24_FrontMinBackMax ==
    \A c \in Containers :
        (Usable(c) /\ num_elements[c] > 0 /\ Traversal(Cur, c).st = "ok") =>
            \A vals \in {Range(Traversal(Cur, c).values)} :
                /\ front(Cur, c).st = "ok" /\ front(Cur, c).thrown = "none"
                /\ back(Cur, c).st = "ok" /\ back(Cur, c).thrown = "none"
                /\ \A v \in vals : front(Cur, c).val <= v /\ v <= back(Cur, c).val
                /\ front(Cur, c).val \in vals /\ back(Cur, c).val \in vals

\* ------------------------------------------------------ backward traversal

\* for (it = end(); it != begin();) { --it; ... }: the nodes a backward
\* traversal visits, in the order of the visit.  --it is current_node->prev.
RECURSIVE BackFrom(_, _, _, _, _)
BackFrom(h, first, it, acc, fuel) ==
    IF it = first THEN [st |-> "ok", nodes |-> acc]
    ELSE IF ~Ok(h, it) \/ ~Ok(h, h.prev[it]) THEN [st |-> "ub", nodes |-> acc]
    ELSE IF fuel = 0 THEN [st |-> "hang", nodes |-> acc]
    ELSE BackFrom(h, first, h.prev[it], Append(acc, h.prev[it]), fuel - 1)

Backward(h, c) ==
    IF ~Ok(h, h.sentinel_node[c]) THEN [st |-> "ub", nodes |-> <<>>]
    ELSE BackFrom(h, h.next[h.sentinel_node[c]], h.sentinel_node[c], <<>>, MaxNodes + 1)

Reverse(s) == [k \in 1..Len(s) |-> s[Len(s) + 1 - k]]

\* C25: in every reachable state the ring of a container that holds a
\* sentinel is consistently doubly linked: the forward traversal ends, every
\* node n of the ring, the sentinel included, has n.next.prev = n and
\* n.prev.next = n, and the backward traversal from end() to begin() visits
\* the nodes of the forward traversal in reverse order.
C25_RingDoublyLinked ==
    \A c \in Containers :
        Usable(c) =>
            /\ Ring(Cur, c).st = "ok"
            /\ \A n \in Cursors(Cur, c) \cup {sentinel_node[c]} :
                  /\ Ok(Cur, next[n]) /\ prev[next[n]] = n
                  /\ Ok(Cur, prev[n]) /\ next[prev[n]] = n
            /\ Backward(Cur, c) = [st |-> "ok", nodes |-> Reverse(Ring(Cur, c).nodes)]

\* An erase has run and left a container with at least two elements.
C25_ErasedFromRing ==
    /\ status = "ok" /\ last = Op("erase", "none")
    /\ \E c \in Containers : Usable(c) /\ Len(Ring(Cur, c).nodes) >= 2

\* C26: insert(pos, count, value) with count == 0 changes nothing and returns
\* a cursor equal to pos.  In every reachable state of a container that holds
\* a sentinel, for every cursor pos (one of the container, end(), a null
\* cursor or one of the other container) and every value, the call has one
\* outcome: memory as it was, pos returned, nothing thrown.
C26_ZeroCountInsertsNothing ==
    \A c \in Containers, v \in Values :
        (status = "ok" /\ Usable(c)) =>
            \A pos \in Hints(Cur, c) \cup BadCursors(Cur, c) :
                insert_count(Cur, c, pos, 0, v) = {Res(Cur, pos, "none")}

\* insert(pos, 0, v) has run on a container with elements.
C26_InsertedNone ==
    /\ status = "ok" /\ last.op = "insert_count" /\ last.input = <<>>
    /\ last.thrown = "none"
    /\ num_elements["b"] > 0

\* seq is in non-decreasing order
NonDecreasing(seq) == \A j, k \in DOMAIN seq : j < k => seq[j] <= seq[k]

\* C27: in every reachable state of a container that holds a sentinel, for
\* every level i <= current_max_level, following forward[i] from the sentinel
\* meets live nodes only, returns to the sentinel after finitely many steps
\* and visits values in non-decreasing order.
C27_ChainsSortedAndClosed ==
    \A c \in Containers :
        Usable(c) =>
            \A i \in 0..current_max_level[c] :
                /\ Chain(Cur, c, i).st = "ok"
                /\ NonDecreasing(ValuesOf(Cur, Chain(Cur, c, i).nodes))

\* C28: in every reachable state of a container that holds a sentinel and
\* whose ring can be traversed, a node of the ring is met by following
\* forward[i] from the sentinel if and only if i <= node.level.
C28_InChainIffLevel ==
    \A c \in Containers :
        (Usable(c) /\ Ring(Cur, c).st = "ok") =>
            \A n \in Cursors(Cur, c), i \in IndexLevels :
                (n \in Range(Chain(Cur, c, i).nodes)) <=> (i <= level[n])

\* C29: in every reachable state of a container that holds a sentinel, the
\* sentinel's forward[i] is the sentinel itself for every level i with
\* current_max_level < i < MAX_SKIP_LEVEL.
C29_UpperLevelsEmpty ==
    \A c \in Containers :
        Usable(c) =>
            \A i \in IndexLevels :
                i > current_max_level[c] => forward[sentinel_node[c]][i] = sentinel_node[c]

\* An erase has left a container with elements at current_max_level 0, on
\* memory no erase has damaged.
C29_ErasedToLevelZero ==
    /\ status = "ok" /\ aged = 0 /\ last = Op("erase", "none")
    /\ \E c \in Containers :
          Usable(c) /\ num_elements[c] > 0 /\ current_max_level[c] = 0

\* The highest level of the nodes of c's ring, 0 when the ring is empty.
MaxLevelOf(h, c) ==
    IF Cursors(h, c) = {} THEN 0
    ELSE CHOOSE l \in {h.level[n] : n \in Cursors(h, c)} :
             \A n \in Cursors(h, c) : h.level[n] <= l

\* C30: after every completed insert or erase on a container whose ring can
\* be traversed, current_max_level is within 0..MAX_SKIP_LEVEL-1 and is the
\* highest level of the nodes in the container, 0 when the container is empty.
C30_MaxLevelIsHighest ==
    \A c \in Containers :
        (Usable(c) /\ Ring(Cur, c).st = "ok"
                   /\ last.op \in {"insert", "erase"} /\ last.thrown = "none") =>
            /\ current_max_level[c] \in IndexLevels
            /\ current_max_level[c] = MaxLevelOf(Cur, c)

\* The nodes of a sequence whose level is at least i, in the order of the
\* sequence.
RECURSIVE AtLevel(_, _, _)
AtLevel(h, nodes, i) ==
    IF nodes = <<>> THEN <<>>
    ELSE (IF h.level[Head(nodes)] >= i THEN <<Head(nodes)>> ELSE <<>>)
             \o AtLevel(h, Tail(nodes), i)

\* C31: ring and index agree by node identity.  In every reachable state of a
\* container that holds a sentinel the ring can be traversed, for every level
\* i <= current_max_level the chain of forward[i] from the sentinel is, in
\* ring order, the ring nodes of level >= i, and forward[0] equals next for
\* the sentinel and every node of the ring.
C31_RingAndIndexAgree ==
    \A c \in Containers :
        Usable(c) =>
            /\ Ring(Cur, c).st = "ok"
            /\ \A i \in 0..current_max_level[c] :
                  Chain(Cur, c, i) = [st |-> "ok", nodes |-> AtLevel(Cur, Ring(Cur, c).nodes, i)]
            /\ \A n \in Cursors(Cur, c) \cup {sentinel_node[c]} :
                  forward[n][0] = next[n]

\* C32: no dangling links.  In every reachable state no prev, next or
\* forward[i] link of a live node, sentinel or data node, designates an
\* address whose node has been destroyed.
C32_NoDanglingLinks ==
    status = "ok" => \A p \in FreeIds(Cur) : ~Designated(Cur, p)

\* The nodes of a sequence other than n, in the order of the sequence.
RECURSIVE Others(_, _)
Others(nodes, n) ==
    IF nodes = <<>> THEN <<>>
    ELSE (IF Head(nodes) = n THEN <<>> ELSE <<Head(nodes)>>) \o Others(Tail(nodes), n)

\* The nodes of ring hold in h1 the values and levels they hold in h.
SameNodes(h, h1, ring) ==
    \A m \in Range(ring) :
        h1.live[m] /\ h1.value[m] = h.value[m] /\ h1.level[m] = h.level[m]

\* C33: frame of the single-element mutations.  In every reachable state of a
\* container whose ring can be traversed, insert(v) runs to its end and
\* leaves a ring with one more node, the new one, holding v at the level
\* drawn, and erase(pos) of an element runs to its end and leaves a ring with
\* one node less, pos; in both cases the other nodes are in the ring in the
\* order they had, with the values and levels they had.
C33_SingleElementFrame ==
    \A c \in Containers :
        (Usable(c) /\ Ring(Cur, c).st = "ok") =>
            \A ring \in {Ring(Cur, c).nodes} :
                /\ \A v \in Values, lvl \in DrawLevels, n \in allocate(Cur) :
                      \A h1 \in {insert(Cur, c, v, lvl, n)} :
                          /\ h1.status = "ok"
                          /\ Ring(h1, c).st = "ok"
                          /\ Len(Ring(h1, c).nodes) = Len(ring) + 1
                          /\ Others(Ring(h1, c).nodes, n) = ring
                          /\ h1.value[n] = v /\ h1.level[n] = lvl
                          /\ SameNodes(Cur, h1, ring)
                /\ \A pos \in Range(ring) :
                      \A r \in {erase(Cur, c, pos)} :
                          /\ r.thrown = "none"
                          /\ r.h.status = "ok"
                          /\ Ring(r.h, c) = [st |-> "ok", nodes |-> Others(ring, pos)]
                          /\ Len(Others(ring, pos)) = Len(ring) - 1
                          /\ ~r.h.live[pos]
                          /\ SameNodes(Cur, r.h, Others(ring, pos))

\* insert and erase on c, where they run to their end, leave the sentinel of
\* c the node it was, live.
KeptByInsertAndErase(c) ==
    /\ \A v \in Values, lvl \in DrawLevels, n \in allocate(Cur) :
          \A h1 \in {insert(Cur, c, v, lvl, n)} :
              h1.status = "ok" =>
                  h1.sentinel_node[c] = sentinel_node[c] /\ h1.live[sentinel_node[c]]
    /\ \A pos \in Cursors(Cur, c) \cup {NULL, sentinel_node[c]} :
          \A r \in {erase(Cur, c, pos)} :
              r.h.status = "ok" =>
                  r.h.sentinel_node[c] = sentinel_node[c] /\ r.h.live[sentinel_node[c]]

\* C34 as stated: across insert, erase and clear() the sentinel of a container
\* is never destroyed: insert and erase leave it in place, and the teardown
\* clear() starts with leaves the sentinel live.
C34_SentinelNeverDestroyed ==
    \A c \in Containers :
        (Usable(c) /\ Ok(Cur, sentinel_node[c])) =>
            /\ KeptByInsertAndErase(c)
            /\ destroy_container_nodes(Cur, c).live[sentinel_node[c]]

\* C34 amended: insert and erase never destroy or replace the sentinel;
\* clear() destroys it with the data nodes and then constructs a new
\* sentinel, whose links all designate itself.
C34_SentinelKeptUntilClear ==
    \A c \in Containers :
        (Usable(c) /\ Ok(Cur, sentinel_node[c])) =>
            /\ KeptByInsertAndErase(c)
            /\ \A h1 \in {destroy_container_nodes(Cur, c)} :
                  h1.status = "ok" =>
                      /\ ~h1.live[sentinel_node[c]]
                      /\ h1.sentinel_node[c] = NULL
                      /\ \A n \in allocate(h1) :
                            /\ clear(Cur, c, n).sentinel_node[c] = n
                            /\ EmptyState(clear(Cur, c, n), c)

\* clear() has run while both containers hold a sentinel and one of them
\* holds elements.
C34_ClearedBesideElements ==
    /\ last = Op("clear", "none")
    /\ Usable("a") /\ Usable("b")
    /\ \E c \in Containers : num_elements[c] > 0

\* c is a container that was moved from: it exists and holds no sentinel.
MovedFrom(h, c) == h.status = "ok" /\ h.constructed[c] /\ h.sentinel_node[c] = NULL

\* C35: clear() on a moved-from container gives it a sentinel of its own, newly
\* allocated, in the empty state with skip_list_heads allocated; an insert
\* then does what it does on a new empty container: the traversal yields the
\* value and the chains of the levels up to the node's level hold the node.
\* Copy-assigning a container with elements into a moved-from container, on
\* memory no erase has damaged, gives it a sentinel of its own and the
\* values and size of the source.
C35_MovedFromRevived ==
    \A c \in Containers :
        MovedFrom(Cur, c) =>
            /\ \A n \in ClearAddrs(Cur, c) :
                  \A h1 \in {clear(Cur, c, n)} :
                      /\ EmptyState(h1, c)
                      /\ h1.sentinel_node[c] = n /\ ~live[n]
                      /\ h1.skip_list_heads[c]
                      /\ \A d \in Containers \ {c} : h1.sentinel_node[d] # n
                      /\ \A v \in Values, lvl \in DrawLevels, m \in allocate(h1) :
                            \A h2 \in {insert(h1, c, v, lvl, m)} :
                                /\ Traversal(h2, c) = [st |-> "ok", values |-> <<v>>]
                                /\ h2.num_elements[c] = 1
                                /\ h2.current_max_level[c] = lvl
                                /\ \A i \in 0..lvl :
                                      Chain(h2, c, i) = [st |-> "ok", nodes |-> <<m>>]
                                /\ find_node_in_skip_list(h2, c, v) = [st |-> "ok", node |-> m]
            /\ \A d \in Containers \ {c} :
                  (Usable(d) /\ aged = 0) =>
                      \A h3 \in CopyAssign(Cur, c, d) :
                          /\ h3.status = "ok"
                          /\ Ok(h3, h3.sentinel_node[c])
                          /\ h3.sentinel_node[c] # h3.sentinel_node[d]
                          /\ Traversal(h3, c) = Traversal(Cur, d)
                          /\ h3.num_elements[c] = num_elements[d]
                          /\ \A i \in 0..h3.current_max_level[c] :
                                Chain(h3, c, i) =
                                    [st |-> "ok", nodes |-> AtLevel(h3, Ring(h3, c).nodes, i)]

\* A moved-from container beside the container that took its elements, with
\* memory left for a sentinel and a copy.
C35_MovedFromBesideElements ==
    /\ aged = 0
    /\ \E c \in Containers : \E d \in Containers \ {c} :
          /\ MovedFrom(Cur, c) /\ Usable(d) /\ num_elements[d] > 0
          /\ CopyAssign(Cur, c, d) # {}

\* C36: find, contains, insert and erase terminate from every reachable state
\* of a container that holds a sentinel: for every value the descent of
\* find and contains, for every value, level and address the insert, and
\* for every element cursor the erase run to their end with every step
\* defined, none of their walks leaving the container or going round a cycle
\* without the sentinel.
C36_OperationsTerminate ==
    \A c \in Containers :
        Usable(c) =>
            /\ \A v \in Values :
                  /\ Descent(Cur, c, v).st = "ok"
                  /\ find_node_in_skip_list(Cur, c, v).st = "ok"
            /\ \A v \in Values, lvl \in DrawLevels, n \in allocate(Cur) :
                  insert(Cur, c, v, lvl, n).status = "ok"
            /\ \A pos \in Cursors(Cur, c) :
                  erase(Cur, c, pos).h.status = "ok"

\* ------------------------------------------------------------- level draws

\* The longest run of draws below 0.5 considered: more than MAX_SKIP_LEVEL.
MaxHeads == 17
\* The most elements the container holds while levels are drawn.
MaxDrawn == 1

\* Sequences of draws: heads draws below 0.5, then none, one or two more of
\* which the first is not below 0.5.
LongDraws ==
    {[k \in 1..(heads + Len(tail)) |-> IF k <= heads THEN TRUE ELSE tail[k - heads]]
        : heads \in 0..MaxHeads, tail \in {<<>>, <<FALSE>>, <<FALSE, TRUE>>}}

\* c.insert(v) with the level get_random_level() returns for draws
InsertDrawn(c, v, draws) ==
    /\ Running /\ Usable(c) /\ num_elements[c] < MaxDrawn
    /\ \E n \in allocate(Cur) : Commit(insert(Cur, c, v, get_random_level(draws), n))
    /\ last' = OpOn("insert_drawn", draws)

\* Container a; inserts with levels drawn from long sequences, and erases.
NextLevels ==
    \/ \E v \in Values, draws \in LongDraws : InsertDrawn("a", v, draws)
    \/ \E pos \in Ptr : Erase("a", pos)

SpecLevels == Init /\ [][NextLevels]_vars

\* The nodes that are not the sentinel of a container.
DataNodes == {n \in NodeIds : live[n] /\ \A c \in Containers : sentinel_node[c] # n}

\* C37: for every sequence of draws get_random_level() makes at most
\* MAX_SKIP_LEVEL - 1 increments, one per draw below 0.5, and returns a level
\* within 0 .. MAX_SKIP_LEVEL - 1; in every reachable state the level of
\* every data node and current_max_level, the highest indices insert and
\* erase use on a forward array and on update[], are below MAX_SKIP_LEVEL,
\* and on memory no erase has damaged an insert at any level drawn runs to
\* its end with every index within its array.
C37_LevelsBelowMax ==
    /\ \A draws \in LongDraws :
          /\ get_random_level(draws) \in 0..(MAX_SKIP_LEVEL - 1)
          /\ get_random_level(draws) <= Len(draws)
          /\ \A k \in 1..get_random_level(draws) : draws[k]
    /\ status = "ok" =>
          /\ \A n \in DataNodes : level[n] \in 0..(MAX_SKIP_LEVEL - 1)
          /\ \A c \in Containers : current_max_level[c] \in 0..(MAX_SKIP_LEVEL - 1)
          /\ \A c \in Containers :
                (Usable(c) /\ aged = 0) =>
                    \A v \in Values, draws \in LongDraws, n \in allocate(Cur) :
                        \A h1 \in {insert(Cur, c, v, get_random_level(draws), n)} :
                            /\ h1.status = "ok"
                            /\ h1.level[n] < MAX_SKIP_LEVEL
                            /\ h1.current_max_level[c] < MAX_SKIP_LEVEL

\* An insert has drawn more than MAX_SKIP_LEVEL values below 0.5 in a row and
\* its node is in the container at level MAX_SKIP_LEVEL - 1.
C37_DrewAllHeads ==
    /\ status = "ok"
    /\ last = OpOn("insert_drawn", [k \in 1..MaxHeads |-> TRUE])
    /\ current_max_level["a"] = MAX_SKIP_LEVEL - 1
    /\ \E n \in Cursors(Cur, "a") : level[n] = MAX_SKIP_LEVEL - 1
====
